---------------------------- MODULE Spec2Model ----------------------------
(***************************************************************************)
(* A model of the authentication endpoint (src/api/auth.ts) and of the     *)
(* data-access functions it rests on (src/app/lib/db.ts).                  *)
(*                                                                         *)
(* Five specifications share the state:                                    *)
(*   Spec            the HTTP handler: requests arrive, run up to their    *)
(*                   next await, and interleave at the awaits;             *)
(*   SpecDbUsers     createUser of db.ts called by concurrent clients;     *)
(*   SpecDbSessions  the session functions of db.ts called directly,       *)
(*                   beside status requests;                               *)
(*   SpecTrial       incrementTrialUsage called by concurrent clients;     *)
(*   SpecStateTokens sign-ins and callbacks, one after another.            *)
(*                                                                         *)
(* Strings whose characters matter (error reasons, which are URI-encoded)  *)
(* are sequences of one-character strings.  Time is a natural number.      *)
(* The created_at / updated_at columns are written by the statements but   *)
(* read by no code of the repository; the rows of the model leave them out.*)
(***************************************************************************)
EXTENDS Naturals, Sequences, FiniteSets

VARIABLES
    users,        \* the users table: a set of rows
    sessions,     \* the sessions table: a set of rows
    now,          \* the clock (CURRENT_TIMESTAMP, Date.now())
    nextToken,    \* source of fresh random session tokens
    dbConfigured, \* whether DATABASE_URL is set
    slot,         \* the handler invocations in flight, each at an await
    out,          \* what the last step sent to its caller (a response, a result)
    call,         \* SpecDbUsers: the createUser calls in flight
    lastUpsert,   \* SpecDbUsers, history: per uuid, the arguments of the last
                  \* createUser call whose statement has run
    consumed,     \* SpecStateTokens, history: the state tokens a callback has
                  \* used to choose its redirect target
    signedOut,    \* history: the tokens of sessions created so far that a
                  \* sign-out answered 200 for
    trialUses,    \* the trial_uses column of the users table, by user id
    incr,         \* SpecTrial: the incrementTrialUsage calls in flight
    incrOk        \* SpecTrial, history: per user id, the number of
                  \* incrementTrialUsage calls that reported success

\* the variables only SpecTrial changes
trialVars == <<trialUses, incr, incrOk>>

vars == <<users, sessions, now, nextToken, dbConfigured, slot, out, call, lastUpsert,
          consumed, signedOut, trialVars>>

-----------------------------------------------------------------------------
(* Bounds of the model *)

\* the clock stops at MaxTime
MaxTime == 2
\* the handler generates at most MaxTokens session tokens
MaxTokens == 1
\* SpecDbSessions creates at most MaxDbSessions sessions
MaxDbSessions == 2
\* SpecStateTokens creates at most MaxCallbacks sessions
MaxCallbacks == 2
\* SpecTrial lets at most MaxIncrements incrementTrialUsage calls per user
\* get as far as reporting success
MaxIncrements == 2

-----------------------------------------------------------------------------
(* Values *)

\* A value that may be null is a sequence: <<>> is null, <<v>> is v.
Null == <<>>
Some(v) == <<v>>

Slots == {"r1", "r2"}
Clients == {"c1", "c2"}
IdleCall == [pc |-> "idle", uuid |-> "", name |-> "", email |-> ""]

\* the provider's account ids, and the names and emails it reports
GoogleIds == {"g1", "g2"}
Names == {"n1", "n2"}
Emails == {"e1", "e2"}

Tokens == 1..MaxTokens

\* the ids the store gives user rows: one row per account id
UserIds == 1..Cardinality(GoogleIds)

\* no incrementTrialUsage call in flight
IdleIncr == [pc |-> "idle", userId |-> 0, currentTrialUses |-> 0]

-----------------------------------------------------------------------------
(* src/app/lib/db.ts *)

\* ensureDatabase(): does it throw?
ensureDatabaseThrows(configured) == ~configured

\* a NULL column value
SqlNull == "NULL"

\* `${email || null}`
EmailOrNull(email) == IF email = "" THEN SqlNull ELSE email

\* the ids the store gives new rows: users are never deleted
NewUserId(us) == Cardinality(us) + 1

\* createUser without the ON CONFLICT clause: always inserts
createUserNoConflict(us, uuid, username, email) ==
    us \cup {[id |-> NewUserId(us), uuid |-> uuid, name |-> username,
              email |-> EmailOrNull(email)]}

\* createUser's statement: INSERT ... ON CONFLICT (uuid) DO UPDATE SET name, email
createUser(us, uuid, username, email) ==
    IF \E u \in us : u.uuid = uuid
    THEN {IF u.uuid = uuid
          THEN [u EXCEPT !.name = username, !.email = EmailOrNull(email)]
          ELSE u : u \in us}
    ELSE us \cup {[id |-> NewUserId(us), uuid |-> uuid, name |-> username,
                   email |-> EmailOrNull(email)]}

\* RETURNING *: the row createUser's statement returns (result[0])
createUserRow(us, uuid) == CHOOSE u \in us : u.uuid = uuid

\* getUserByUuid
getUserByUuid(us, uuid) ==
    IF \E u \in us : u.uuid = uuid THEN Some(CHOOSE u \in us : u.uuid = uuid) ELSE Null

\* createSession replacing the user's earlier sessions: one session per user
createSessionOnePerUser(ss, userId, sessionToken, expiresAt) ==
    {s \in ss : s.user_id # userId}
        \cup {[user_id |-> userId, session_token |-> sessionToken,
                expires_at |-> expiresAt]}

\* createSession's statement: INSERT INTO sessions
createSession(ss, userId, sessionToken, expiresAt) ==
    ss \cup {[user_id |-> userId, session_token |-> sessionToken,
              expires_at |-> expiresAt]}

\* the rows of sessions JOIN users that getSessionByToken's WHERE clause keeps
SessionMatches(ss, us, t, sessionToken) ==
    {[user_id |-> s.user_id, session_token |-> s.session_token,
      expires_at |-> s.expires_at, uuid |-> u.uuid, username |-> u.name,
      email |-> u.email] :
        <<s, u>> \in {p \in ss \X us :
                        /\ p[1].user_id = p[2].id
                        /\ p[1].session_token = sessionToken
                        /\ p[1].expires_at > t}}

\* getSessionByToken with the expiry test off by one (>=)
getSessionByTokenOffByOne(ss, us, t, sessionToken) ==
    LET m == {[user_id |-> s.user_id, session_token |-> s.session_token,
               expires_at |-> s.expires_at, uuid |-> u.uuid, username |-> u.name,
               email |-> u.email] :
                 <<s, u>> \in {p \in ss \X us :
                                 /\ p[1].user_id = p[2].id
                                 /\ p[1].session_token = sessionToken
                                 /\ p[1].expires_at >= t}}
    IN IF m = {} THEN Null ELSE Some(CHOOSE x \in m : TRUE)

\* getSessionByToken: LIMIT 1, result[0] || null
getSessionByToken(ss, us, t, sessionToken) ==
    LET m == SessionMatches(ss, us, t, sessionToken)
    IN IF m = {} THEN Null ELSE Some(CHOOSE x \in m : TRUE)

\* deleteSession deleting nothing
deleteSessionNothing(ss, sessionToken) == ss

\* deleteSession deleting every session of the token's user
deleteSessionOfUser(ss, sessionToken) ==
    {s \in ss : \A x \in ss : x.session_token = sessionToken => s.user_id # x.user_id}

\* deleteSession's statement
deleteSession(ss, sessionToken) == {s \in ss : s.session_token # sessionToken}

\* cleanupExpiredSessions' statement
cleanupExpiredSessions(ss, t) == {s \in ss : ~(s.expires_at < t)}

-----------------------------------------------------------------------------
(* Requests and responses of src/api/auth.ts *)

\* the post-login paths a sign-in may ask for
Paths == {"/p"}

\* a state token: the path it carries, when it was issued, and whether its
\* signature verifies
StateTokens(t) ==
    [redirectTo : Paths \cup {"/"}, iat : 0..t, sig : {"ok"}]
        \cup [redirectTo : Paths, iat : {t}, sig : {"bad"}]

\* the provider's error query parameter; <<>> when it is absent
OAuthErrors == {<<>>, <<"n", "o">>, <<"a", "&", "b">>}

\* the messages of the errors the collaborators throw
ExchangeError == <<"b", "a", "d", " ", "c", "o", "d", "e">>
DbError == <<"d", "b", " ", "d", "o", "w", "n">>
ConfigError == <<"D", "A", "T", "A", "B", "A", "S", "E", "_", "U", "R", "L", " ", "n", "o", "t", " ", "s", "e", "t">>
CookieError == <<"h", "e", "a", "d", "e", "r", "s", " ", "s", "e", "n", "t">>

\* what the provider's identity endpoint may answer
Identities ==
    {[id |-> "g1", name |-> "n1", email |-> "e1"],
     [id |-> "g2", name |-> "n2", email |-> "e2"],
     [id |-> "g1", name |-> "n1", email |-> ""]}

NoIdentity == [id |-> "", name |-> "", email |-> ""]

\* a request: its method and the query parameters and cookie the handler reads
BaseRequest ==
    [method |-> "GET", action |-> "", code |-> "", state |-> Null,
     error |-> <<>>, next |-> "", cookie |-> Null]

Methods == {"GET", "POST", "PUT", "OPTIONS"}
Actions == {"", "signin", "signout", "status", "callback", "bogus"}
\* a session token no session ever had: a forged or long-forgotten cookie
NoSessionToken == 0

\* the cookies a request may carry: none, one no session ever had, or the
\* token of a session created so far (a fresh token is random: no request
\* carries it before it is generated)
Cookies == {Null, Some(NoSessionToken)} \cup {Some(t) : t \in 1..(nextToken - 1)}

\* the requests at time t; a parameter no code path of the action reads keeps
\* its default
Requests(t) ==
    {[BaseRequest EXCEPT !.method = m, !.action = a] :
        m \in Methods, a \in Actions}
    \cup {[BaseRequest EXCEPT !.action = "signin", !.next = n] : n \in Paths \cup {""}}
    \cup {[BaseRequest EXCEPT !.method = "POST", !.action = "signout", !.cookie = c] :
            c \in Cookies}
    \cup {[BaseRequest EXCEPT !.action = a, !.cookie = c] :
            a \in {"", "status"}, c \in Cookies}
    \cup {[BaseRequest EXCEPT !.method = "GET", !.action = "signout", !.cookie = c] :
            c \in Cookies}
    \cup {[BaseRequest EXCEPT !.method = "POST", !.action = "status", !.cookie = c] :
            c \in Cookies}
    \cup {[BaseRequest EXCEPT !.method = "POST", !.action = "callback", !.code = "code"]}
    \cup {[BaseRequest EXCEPT !.action = "callback", !.code = c, !.error = e] :
            c \in {"", "code"}, e \in OAuthErrors}
    \cup {[BaseRequest EXCEPT !.action = "callback", !.code = "code", !.state = st] :
            st \in {Null} \cup {Some(k) : k \in StateTokens(t)}}

\* nothing sent: the value of out after a step that answers no caller
NoOut ==
    [kind |-> "none", q |-> BaseRequest, ops |-> {}, faults |-> {},
     identity |-> NoIdentity, status |-> 0, body |-> "",
     isAuthenticated |-> FALSE, user |-> Null, error |-> <<>>,
     success |-> FALSE, location |-> <<>>, issued |-> Null,
     cookie |-> "none", cookieToken |-> 0,
     fn |-> "", token |-> 0, found |-> Null,
     userId |-> 0, used |-> 0, remaining |-> 0, max |-> 0]

\* a handler invocation waiting at an await
IdleSlot ==
    [pc |-> "idle", q |-> BaseRequest, ops |-> {}, faults |-> {},
     identity |-> NoIdentity, userId |-> 0]

\* the response under construction of the invocation in slot record s
Res(s) == [NoOut EXCEPT !.q = s.q, !.ops = s.ops, !.faults = s.faults,
                        !.identity = s.identity]

\* res.status(code).json(body)
Json(res, code, body) == [res EXCEPT !.kind = "response", !.status = code, !.body = body]

\* res.redirect(302, location)
Redirect(res, location) ==
    [res EXCEPT !.kind = "response", !.status = 302, !.body = "redirect",
                !.location = location]

\* the promise the handler returns is rejected: no response is sent
Rejected(res) == [res EXCEPT !.kind = "escaped"]

\* encodeURIComponent of one character
EncodeChar(c) ==
    CASE c = " " -> <<"%", "2", "0">>
      [] c = "&" -> <<"%", "2", "6">>
      [] OTHER -> <<c>>

\* encodeURIComponent
RECURSIVE encodeURIComponent(_)
encodeURIComponent(s) ==
    IF s = <<>> THEN <<>> ELSE EncodeChar(Head(s)) \o encodeURIComponent(Tail(s))

\* `/?error=${encodeURIComponent(message)}`
ErrorPage(message) == <<"/?error=">> \o encodeURIComponent(message)

-----------------------------------------------------------------------------
(* app/lib/auth: the helpers src/api/auth.ts imports *)

\* how long a session lasts, and how long a state token stays fresh
SessionTTL == 1
StateTTL == 1

\* getSessionToken(req): the session cookie's value, or null
getSessionToken(q) == q.cookie

\* generateStateToken(next)
generateStateToken(next, t) == [redirectTo |-> next, iat |-> t, sig |-> "ok"]

\* verifyStateToken(state): the payload of a token that verifies and is fresh;
\* null for anything else, an absent token included
verifyStateToken(state, t) ==
    IF state = Null THEN Null
    ELSE IF state[1].sig = "ok" /\ t <= state[1].iat + StateTTL
         THEN Some([redirectTo |-> state[1].redirectTo])
         ELSE Null

\* getGoogleAuthUrl(state): the provider's authorization URL; the state rides
\* in the response's issued field
getGoogleAuthUrl(state) == <<"https://accounts.google.com/o/oauth2/v2/auth?state=">>

\* setSessionCookie(res, token) / clearSessionCookie(res)
setSessionCookie(res, token) == [res EXCEPT !.cookie = "set", !.cookieToken = token]
clearSessionCookie(res) == [res EXCEPT !.cookie = "cleared", !.cookieToken = 0]

\* destroySession(token): deletes the session row
destroySession(ss, token) == deleteSession(ss, token)

\* getAuthenticatedUser(req), given what its session lookup found
getAuthenticatedUser(found) ==
    IF found = Null THEN Null
    ELSE Some([uuid |-> found[1].uuid, username |-> found[1].username,
               email |-> found[1].email])

-----------------------------------------------------------------------------
(* src/api/auth.ts: the handlers *)

\* Route without `|| 'status'`: a missing action is no case of the switch
RouteNoDefaultAction(q) ==
    IF q.method = "OPTIONS" THEN "200"
    ELSE LET action == q.action
         IN CASE action = "signin" ->
                   IF q.method # "GET" THEN "405" ELSE "handleSignIn"
              [] action = "signout" ->
                   IF q.method # "POST" THEN "405" ELSE "handleSignOut"
              [] action = "status" ->
                   IF q.method # "GET" THEN "405" ELSE "handleStatus"
              [] action = "callback" ->
                   IF q.method # "GET" THEN "405" ELSE "handleCallback"
              [] OTHER -> "400"

\* Route with the signout case not testing the method
RouteSignOutAnyMethod(q) ==
    IF q.method = "OPTIONS" THEN "200"
    ELSE LET action == IF q.action = "" THEN "status" ELSE q.action
         IN CASE action = "signin" ->
                   IF q.method # "GET" THEN "405" ELSE "handleSignIn"
              [] action = "signout" -> "handleSignOut"
              [] action = "status" ->
                   IF q.method # "GET" THEN "405" ELSE "handleStatus"
              [] action = "callback" ->
                   IF q.method # "GET" THEN "405" ELSE "handleCallback"
              [] OTHER -> "400"

\* Route with the switch's default falling through to the status handler
RouteDefaultStatus(q) ==
    IF q.method = "OPTIONS" THEN "200"
    ELSE LET action == IF q.action = "" THEN "status" ELSE q.action
         IN CASE action = "signin" ->
                   IF q.method # "GET" THEN "405" ELSE "handleSignIn"
              [] action = "signout" ->
                   IF q.method # "POST" THEN "405" ELSE "handleSignOut"
              [] action = "callback" ->
                   IF q.method # "GET" THEN "405" ELSE "handleCallback"
              [] OTHER ->
                   IF q.method # "GET" THEN "405" ELSE "handleStatus"

\* handler's routing: which handler runs, or which status answers at once
Route(q) ==
    IF q.method = "OPTIONS" THEN "200"
    ELSE LET action == IF q.action = "" THEN "status" ELSE q.action
         IN CASE action = "signin" ->
                   IF q.method # "GET" THEN "405" ELSE "handleSignIn"
              [] action = "signout" ->
                   IF q.method # "POST" THEN "405" ELSE "handleSignOut"
              [] action = "status" ->
                   IF q.method # "GET" THEN "405" ELSE "handleStatus"
              [] action = "callback" ->
                   IF q.method # "GET" THEN "405" ELSE "handleCallback"
              [] OTHER -> "400"

\* the response of a request no handler runs for
RouteResponse(q) ==
    LET res == [NoOut EXCEPT !.q = q]
    IN CASE Route(q) = "200" -> Json(res, 200, "")
         [] Route(q) = "405" -> Json(res, 405, "error")
         [] Route(q) = "400" -> Json(res, 400, "error")

\* handleSignIn
handleSignIn(res, t, urlThrows) ==
    LET next == IF res.q.next = "" THEN "/" ELSE res.q.next
        state == generateStateToken(next, t)
    IN IF urlThrows
       THEN [Json(res, 500, "error") EXCEPT !.error = ConfigError,
                                            !.faults = @ \cup {"getGoogleAuthUrl"}]
       ELSE [Redirect(res, getGoogleAuthUrl(state)) EXCEPT !.issued = Some(state)]

\* handleSignOut's catch block answering as if nothing had failed
handleSignOutCatchSwallow(res, message, clearThrows) ==
    LET r1 == [res EXCEPT !.ops = @ \cup {"clearSessionCookie"}]
    IN IF clearThrows
       THEN Rejected([r1 EXCEPT !.faults = @ \cup {"clearSessionCookie2"},
                                !.error = CookieError])
       ELSE [Json(clearSessionCookie(r1), 200, "signout") EXCEPT !.success = TRUE]

\* handleSignOut's catch block without its clearSessionCookie call
handleSignOutCatchNoClear(res, message, clearThrows) ==
    [Json(res, 500, "error") EXCEPT !.error = message]

\* handleSignOut's catch block
handleSignOutCatch(res, message, clearThrows) ==
    LET r1 == [res EXCEPT !.ops = @ \cup {"clearSessionCookie"}]
    IN IF clearThrows
       THEN Rejected([r1 EXCEPT !.faults = @ \cup {"clearSessionCookie2"},
                                !.error = CookieError])
       ELSE [Json(clearSessionCookie(r1), 500, "error") EXCEPT !.error = message]

\* handleSignOut after its session, if any, was destroyed (or the attempt threw)
handleSignOutTail(res, destroyThrew, clearThrows, clearThrowsAgain) ==
    IF destroyThrew
    THEN handleSignOutCatch([res EXCEPT !.faults = @ \cup {"destroySession"}],
                            DbError, clearThrowsAgain)
    ELSE IF clearThrows
         THEN handleSignOutCatch(
                  [res EXCEPT !.ops = @ \cup {"clearSessionCookie"},
                              !.faults = @ \cup {"clearSessionCookie"}],
                  CookieError, clearThrowsAgain)
         ELSE [Json(clearSessionCookie(
                        [res EXCEPT !.ops = @ \cup {"clearSessionCookie"}]),
                    200, "signout") EXCEPT !.success = TRUE]

\* handleStatus without its test of DATABASE_URL: the session lookup is
\* tried, throws, and the catch block answers
handleStatusUnconfiguredLooksUp(res) ==
    [Json([res EXCEPT !.ops = @ \cup {"getAuthenticatedUser", "getSessionByToken"},
                      !.faults = @ \cup {"getSessionByToken"}],
          200, "status") EXCEPT !.isAuthenticated = FALSE, !.user = Null,
                                !.error = ConfigError]

\* handleStatus when DATABASE_URL is not set
handleStatusUnconfigured(res) ==
    [Json(res, 200, "status") EXCEPT !.isAuthenticated = FALSE, !.user = Null,
                                     !.error = <<"Database not configured">>]

\* handleStatus once getAuthenticatedUser has answered
handleStatusAnswer(res, user) ==
    IF user = Null
    THEN [Json(res, 200, "status") EXCEPT !.isAuthenticated = FALSE, !.user = Null]
    ELSE [Json(res, 200, "status") EXCEPT !.isAuthenticated = TRUE, !.user = user]

\* handleStatus's catch block answering 500
handleStatusCatch500(res, message) == [Json(res, 500, "error") EXCEPT !.error = message]

\* handleStatus's catch block
handleStatusCatch(res, message) ==
    [Json(res, 200, "status") EXCEPT !.isAuthenticated = FALSE, !.user = Null,
                                     !.error = message]

\* handleCallback's catch block answering 500
handleCallbackCatch500(res, message) == [Json(res, 500, "error") EXCEPT !.error = message]

\* handleCallback's catch block
handleCallbackCatch(res, message) == Redirect(res, ErrorPage(message))

\* handleCallback's entry testing the code before the provider's error
handleCallbackEntryCodeFirst(q) ==
    IF q.code # "" THEN "exchange"
    ELSE IF q.error # <<>> THEN "error"
    ELSE "missing_code"

\* handleCallback up to its first await: "error", "missing_code" or "exchange"
handleCallbackEntry(q) ==
    IF q.error # <<>> THEN "error"
    ELSE IF q.code = "" THEN "missing_code"
    ELSE "exchange"

\* handleCallback after the code exchange without the test of the email
handleCallbackExchangedNoEmailCheck(ok, googleUser) ==
    IF ~ok THEN "throw" ELSE "createUserSession"

\* handleCallback after the code exchange: "throw" when getGoogleUserInfo
\* threw, "no_email", or "createUserSession"
handleCallbackExchanged(ok, googleUser) ==
    IF ~ok THEN "throw"
    ELSE IF googleUser.email = "" THEN "no_email"
    ELSE "createUserSession"

\* handleCallback's end never reading the state: always the default target
handleCallbackFinishNoState(res, sessionToken, t, cookieThrows) ==
    LET r1 == [res EXCEPT !.ops = @ \cup {"setSessionCookie"}]
    IN IF cookieThrows
       THEN handleCallbackCatch([r1 EXCEPT !.faults = @ \cup {"setSessionCookie"}],
                                CookieError)
       ELSE Redirect(setSessionCookie(r1, sessionToken), <<"/upload">>)

\* handleCallback once createUserSession has returned sessionToken
handleCallbackFinish(res, sessionToken, t, cookieThrows) ==
    LET r1 == [res EXCEPT !.ops = @ \cup {"setSessionCookie"}]
    IN IF cookieThrows
       THEN handleCallbackCatch([r1 EXCEPT !.faults = @ \cup {"setSessionCookie"}],
                                CookieError)
       ELSE LET stateData == verifyStateToken(res.q.state, t)
                redirectTo == IF stateData = Null \/ stateData[1].redirectTo = ""
                              THEN "/upload"
                              ELSE stateData[1].redirectTo
            IN Redirect(setSessionCookie(
                            [r1 EXCEPT !.ops = @ \cup {"verifyStateToken"}],
                            sessionToken),
                        <<redirectTo>>)

-----------------------------------------------------------------------------
(* The handler as a state machine: one step runs an invocation from one     *)
(* await to the next.  A statement sent to the store runs atomically when   *)
(* its step is taken, and throws when the store fails or is not configured. *)

Init ==
    /\ users = {}
    /\ sessions = {}
    /\ now = 0
    /\ nextToken = 1
    /\ dbConfigured \in BOOLEAN
    /\ slot = [r \in Slots |-> IdleSlot]
    /\ out = NoOut
    /\ call = [c \in Clients |-> IdleCall]
    /\ lastUpsert = [g \in GoogleIds |-> Null]
    /\ consumed = {}
    /\ signedOut = {}
    /\ trialUses = [i \in UserIds |-> 0]
    /\ incr = [c \in Clients |-> IdleIncr]
    /\ incrOk = [i \in UserIds |-> 0]

\* the slot a new invocation takes
FreeSlot == IF slot["r1"].pc = "idle" THEN "r1" ELSE "r2"

\* a callback is in flight.  The model runs one callback at a time, beside
\* at most one sign-out or status invocation; concurrent upserts are the
\* subject of SpecDbUsers.
CallbackInFlight ==
    \E r \in Slots : slot[r].pc \in
        {"callback_exchange", "callback_createUser", "callback_createSession"}

\* no invocation is in flight.  A request that runs to its response without
\* an await is one step that reads only the request, the clock and the
\* configuration and writes only the response: the model takes such a step
\* when no invocation is in flight.
Quiescent == \A r \in Slots : slot[r].pc = "idle"

\* the caller of the last step has received what the step sent.  The handler
\* takes its steps one at a time (one thread, run to the next await), and
\* what a step sends is on its way before the next step is taken.
Delivered == out = NoOut

\* an invocation of request q that has entered handler h and awaits at pc
Awaiting(q, pc, ops) == [IdleSlot EXCEPT !.pc = pc, !.q = q, !.ops = ops]

\* a request answered by the router itself: OPTIONS, 405, 400
Answer ==
    /\ Delivered
    /\ Quiescent
    /\ \E q \in Requests(now) :
          /\ Route(q) \in {"200", "405", "400"}
          /\ out' = RouteResponse(q)
    /\ UNCHANGED <<users, sessions, now, nextToken, dbConfigured, slot, call, lastUpsert,
                   consumed, signedOut, trialVars>>

\* GET signin: handleSignIn has no await
SignIn ==
    /\ Delivered
    /\ Quiescent
    /\ \E q \in Requests(now), urlThrows \in BOOLEAN :
          /\ Route(q) = "handleSignIn"
          /\ out' = handleSignIn([NoOut EXCEPT !.q = q, !.ops = {"handleSignIn"}],
                                  now, urlThrows)
    /\ UNCHANGED <<users, sessions, now, nextToken, dbConfigured, slot, call, lastUpsert,
                   consumed, signedOut, trialVars>>

\* POST signout without a session cookie: nothing to destroy, no await
SignOutNoCookie ==
    /\ Delivered
    /\ Quiescent
    /\ \E q \in Requests(now), clearThrows \in BOOLEAN, clearThrowsAgain \in BOOLEAN :
          /\ Route(q) = "handleSignOut"
          /\ getSessionToken(q) = Null
          /\ out' = handleSignOutTail([NoOut EXCEPT !.q = q, !.ops = {"handleSignOut"}],
                                       FALSE, clearThrows, clearThrowsAgain)
    /\ UNCHANGED <<users, sessions, now, nextToken, dbConfigured, slot, call, lastUpsert,
                   consumed, signedOut, trialVars>>

\* POST signout with a session cookie: awaits destroySession
SignOutBegin ==
    /\ Delivered
    /\ slot[FreeSlot].pc = "idle"
    /\ \E q \in Requests(now) :
          /\ Route(q) = "handleSignOut"
          /\ getSessionToken(q) # Null
          /\ slot' = [slot EXCEPT ![FreeSlot] =
                        Awaiting(q, "signout_destroy", {"handleSignOut", "destroySession"})]
    /\ out' = NoOut
    /\ UNCHANGED <<users, sessions, now, nextToken, dbConfigured, call, lastUpsert,
                   consumed, signedOut, trialVars>>

\* destroySession's DELETE runs or throws; handleSignOut goes on to its end
SignOutDestroyed(r) ==
    /\ Delivered
    /\ slot[r].pc = "signout_destroy"
    /\ \E ok \in BOOLEAN, clearThrows \in BOOLEAN, clearThrowsAgain \in BOOLEAN :
          /\ ok => dbConfigured
          /\ sessions' = IF ok THEN destroySession(sessions, getSessionToken(slot[r].q)[1])
                          ELSE sessions
          /\ out' = handleSignOutTail(Res(slot[r]), ~ok, clearThrows, clearThrowsAgain)
          /\ signedOut' = IF /\ out'.kind = "response"
                             /\ out'.status = 200
                             /\ getSessionToken(slot[r].q)[1] # NoSessionToken
                          THEN signedOut \cup {getSessionToken(slot[r].q)[1]}
                          ELSE signedOut
    /\ slot' = [slot EXCEPT ![r] = IdleSlot]
    /\ UNCHANGED <<users, now, nextToken, dbConfigured, call, lastUpsert,
                   consumed, trialVars>>

\* GET status when DATABASE_URL is not set
StatusUnconfigured ==
    /\ Delivered
    /\ ~dbConfigured
    /\ Quiescent
    /\ \E q \in Requests(now) :
          /\ Route(q) = "handleStatus"
          /\ out' = handleStatusUnconfigured([NoOut EXCEPT !.q = q, !.ops = {"handleStatus"}])
    /\ UNCHANGED <<users, sessions, now, nextToken, dbConfigured, slot, call, lastUpsert,
                   consumed, signedOut, trialVars>>

\* GET status without a session cookie: getAuthenticatedUser answers null
StatusNoCookie ==
    /\ Delivered
    /\ dbConfigured
    /\ Quiescent
    /\ \E q \in Requests(now) :
          /\ Route(q) = "handleStatus"
          /\ getSessionToken(q) = Null
          /\ out' = handleStatusAnswer(
                        [NoOut EXCEPT !.q = q,
                                      !.ops = {"handleStatus", "getAuthenticatedUser"}],
                        Null)
    /\ UNCHANGED <<users, sessions, now, nextToken, dbConfigured, slot, call, lastUpsert,
                   consumed, signedOut, trialVars>>

\* GET status with a session cookie: awaits the session lookup
StatusBegin ==
    /\ Delivered
    /\ dbConfigured
    /\ slot[FreeSlot].pc = "idle"
    /\ \E q \in Requests(now) :
          /\ Route(q) = "handleStatus"
          /\ getSessionToken(q) # Null
          /\ slot' = [slot EXCEPT ![FreeSlot] =
                        Awaiting(q, "status_lookup",
                                 {"handleStatus", "getAuthenticatedUser", "getSessionByToken"})]
    /\ out' = NoOut
    /\ UNCHANGED <<users, sessions, now, nextToken, dbConfigured, call, lastUpsert,
                   consumed, signedOut, trialVars>>

\* the session lookup answers or throws; handleStatus goes on to its end
StatusLooked(r) ==
    /\ Delivered
    /\ slot[r].pc = "status_lookup"
    /\ \E ok \in BOOLEAN :
          /\ ok => dbConfigured
          /\ out' = IF ok
                     THEN handleStatusAnswer(Res(slot[r]),
                              getAuthenticatedUser(
                                  getSessionByToken(sessions, users, now,
                                                    getSessionToken(slot[r].q)[1])))
                     ELSE handleStatusCatch(
                              [Res(slot[r]) EXCEPT !.faults = @ \cup {"getSessionByToken"}],
                              DbError)
    /\ slot' = [slot EXCEPT ![r] = IdleSlot]
    /\ UNCHANGED <<users, sessions, now, nextToken, dbConfigured, call, lastUpsert,
                   consumed, signedOut, trialVars>>

\* GET callback that never reaches the code exchange: a provider error, or no code
CallbackRefused ==
    /\ Delivered
    /\ Quiescent
    /\ \E q \in Requests(now) :
          /\ Route(q) = "handleCallback"
          /\ handleCallbackEntry(q) # "exchange"
          /\ LET res == [NoOut EXCEPT !.q = q, !.ops = {"handleCallback"}]
             IN out' = IF handleCallbackEntry(q) = "error"
                       THEN Redirect(res, ErrorPage(q.error))
                       ELSE Redirect(res, <<"/?error=", "missing_code">>)
    /\ UNCHANGED <<users, sessions, now, nextToken, dbConfigured, slot, call, lastUpsert,
                   consumed, signedOut, trialVars>>

\* GET callback with a code: awaits getGoogleUserInfo(code)
CallbackBegin ==
    /\ Delivered
    /\ slot[FreeSlot].pc = "idle"
    /\ ~CallbackInFlight
    /\ \E q \in Requests(now) :
          /\ Route(q) = "handleCallback"
          /\ handleCallbackEntry(q) = "exchange"
          /\ slot' = [slot EXCEPT ![FreeSlot] =
                        Awaiting(q, "callback_exchange",
                                 {"handleCallback", "getGoogleUserInfo"})]
    /\ out' = NoOut
    /\ UNCHANGED <<users, sessions, now, nextToken, dbConfigured, call, lastUpsert,
                   consumed, signedOut, trialVars>>

\* the provider answers the code exchange with an identity, or it throws;
\* with an email, createUserSession starts and awaits createUser.  Once
\* MaxTokens tokens are drawn the provider hands out no identity with an email.
CallbackExchanged(r) ==
    /\ Delivered
    /\ slot[r].pc = "callback_exchange"
    /\ \E ok \in BOOLEAN, googleUser \in Identities :
          /\ (ok /\ googleUser.email # "") => nextToken <= MaxTokens
          /\ LET res == Res(slot[r])
                 started == [res EXCEPT !.identity = googleUser,
                                        !.ops = @ \cup {"createUserSession", "createUser"}]
                 next == handleCallbackExchanged(ok, googleUser)
             IN IF next = "throw"
                THEN /\ out' = handleCallbackCatch(
                                   [res EXCEPT !.faults = @ \cup {"getGoogleUserInfo"}],
                                   ExchangeError)
                     /\ slot' = [slot EXCEPT ![r] = IdleSlot]
                ELSE IF next = "no_email"
                THEN /\ out' = Redirect([res EXCEPT !.identity = googleUser],
                                        <<"/?error=", "no_email">>)
                     /\ slot' = [slot EXCEPT ![r] = IdleSlot]
                ELSE IF ensureDatabaseThrows(dbConfigured)
                THEN /\ out' = handleCallbackCatch(
                                   [started EXCEPT !.faults = @ \cup {"createUser"}],
                                   ConfigError)
                     /\ slot' = [slot EXCEPT ![r] = IdleSlot]
                ELSE /\ out' = NoOut
                     /\ slot' = [slot EXCEPT ![r] =
                                   [@ EXCEPT !.pc = "callback_createUser",
                                             !.identity = googleUser,
                                             !.ops = started.ops]]
    /\ UNCHANGED <<users, sessions, now, nextToken, dbConfigured, call, lastUpsert,
                   consumed, signedOut, trialVars>>

\* createUser's statement runs or throws; createUserSession then awaits createSession
CallbackUserCreated(r) ==
    /\ Delivered
    /\ slot[r].pc = "callback_createUser"
    /\ \E ok \in BOOLEAN :
          LET g == slot[r].identity
              us == createUser(users, g.id, g.name, g.email)
          IN IF ok
             THEN /\ users' = us
                  /\ out' = NoOut
                  /\ slot' = [slot EXCEPT ![r] =
                                [@ EXCEPT !.pc = "callback_createSession",
                                          !.userId = createUserRow(us, g.id).id,
                                          !.ops = @ \cup {"createSession"}]]
             ELSE /\ UNCHANGED users
                  /\ out' = handleCallbackCatch(
                                [Res(slot[r]) EXCEPT !.faults = @ \cup {"createUser"}],
                                DbError)
                  /\ slot' = [slot EXCEPT ![r] = IdleSlot]
    /\ UNCHANGED <<sessions, now, nextToken, dbConfigured, call, lastUpsert,
                   consumed, signedOut, trialVars>>

\* createSession's statement, with a fresh token expiring SessionTTL from now,
\* runs or throws; handleCallback goes on to its end
CallbackSessionCreated(r) ==
    /\ Delivered
    /\ slot[r].pc = "callback_createSession"
    /\ nextToken <= MaxTokens
    /\ \E ok \in BOOLEAN, cookieThrows \in BOOLEAN :
          IF ok
          THEN /\ sessions' = createSession(sessions, slot[r].userId, nextToken,
                                             now + SessionTTL)
               /\ nextToken' = nextToken + 1
               /\ out' = handleCallbackFinish(Res(slot[r]), nextToken, now, cookieThrows)
          ELSE /\ UNCHANGED <<sessions, nextToken>>
               /\ out' = handleCallbackCatch(
                             [Res(slot[r]) EXCEPT !.faults = @ \cup {"createSession"}],
                             DbError)
    /\ slot' = [slot EXCEPT ![r] = IdleSlot]
    /\ UNCHANGED <<users, now, dbConfigured, call, lastUpsert,
                   consumed, signedOut, trialVars>>

\* what the last step sent reaches its caller
Deliver ==
    /\ out # NoOut
    /\ out' = NoOut
    /\ UNCHANGED <<users, sessions, now, nextToken, dbConfigured, slot, call, lastUpsert,
                   consumed, signedOut, trialVars>>

\* time passes
Tick ==
    /\ now < MaxTime
    /\ now' = now + 1
    /\ out' = NoOut
    /\ UNCHANGED <<users, sessions, nextToken, dbConfigured, slot, call, lastUpsert,
                   consumed, signedOut, trialVars>>

Next ==
    \/ Answer
    \/ SignIn
    \/ SignOutNoCookie
    \/ SignOutBegin
    \/ \E r \in Slots : SignOutDestroyed(r)
    \/ StatusUnconfigured
    \/ StatusNoCookie
    \/ StatusBegin
    \/ \E r \in Slots : StatusLooked(r)
    \/ CallbackRefused
    \/ CallbackBegin
    \/ \E r \in Slots : CallbackExchanged(r)
    \/ \E r \in Slots : CallbackUserCreated(r)
    \/ \E r \in Slots : CallbackSessionCreated(r)
    \/ Deliver
    \/ Tick

Spec == Init /\ [][Next]_vars

-----------------------------------------------------------------------------
(* db.ts called directly: createUser by concurrent clients.  A call is two  *)
(* steps: the call (ensureDatabase, the statement sent) and the statement   *)
(* running in the store, which is atomic.                                   *)

\* the email argument; "" stands for an omitted or empty one
EmailArgs == {"e1", ""}

\* the result a db.ts function hands its caller
DbResult(fn, token, found) ==
    [NoOut EXCEPT !.kind = "result", !.fn = fn, !.token = token, !.found = found]

\* a db.ts function throws
DbThrows(fn, message) == [NoOut EXCEPT !.kind = "threw", !.fn = fn, !.error = message]

\* createUser(uuid, username, email) is called
DbCreateUserCall(c) ==
    /\ call[c].pc = "idle"
    /\ \E uuid \in GoogleIds, username \in Names, email \in EmailArgs :
          IF ensureDatabaseThrows(dbConfigured)
          THEN /\ out' = DbThrows("createUser", ConfigError)
               /\ UNCHANGED call
          ELSE /\ out' = NoOut
               /\ call' = [call EXCEPT ![c] = [pc |-> "createUser", uuid |-> uuid,
                                                name |-> username, email |-> email]]
    /\ UNCHANGED <<users, sessions, now, nextToken, dbConfigured, slot, lastUpsert,
                   consumed, signedOut, trialVars>>

\* the statement of a createUser call runs
DbCreateUserRun(c) ==
    /\ call[c].pc = "createUser"
    /\ users' = createUser(users, call[c].uuid, call[c].name, call[c].email)
    /\ lastUpsert' = [lastUpsert EXCEPT ![call[c].uuid] =
                         Some([name |-> call[c].name, email |-> call[c].email,
                               again |-> lastUpsert[call[c].uuid] # Null])]
    /\ out' = DbResult("createUser", 0, Null)
    /\ call' = [call EXCEPT ![c] = IdleCall]
    /\ UNCHANGED <<sessions, now, nextToken, dbConfigured, slot,
                   consumed, signedOut, trialVars>>

NextDbUsers == \E c \in Clients : DbCreateUserCall(c) \/ DbCreateUserRun(c)

SpecDbUsers == Init /\ [][NextDbUsers]_vars

-----------------------------------------------------------------------------
(* db.ts called directly: the session functions, one statement each *)

DbTokens == 1..MaxDbSessions

\* createUser for one of the provider's identities
DbCreateUser ==
    /\ Delivered
    /\ dbConfigured
    /\ \E g \in Identities :
          users' = createUser(users, g.id, g.name, g.email)
    /\ out' = DbResult("createUser", 0, Null)
    /\ UNCHANGED <<sessions, now, nextToken, dbConfigured, slot, call, lastUpsert,
                   consumed, signedOut, trialVars>>

\* createSession(userId, sessionToken, expiresAt) with a fresh token
DbCreateSession ==
    /\ Delivered
    /\ dbConfigured
    /\ nextToken <= MaxDbSessions
    /\ \E u \in users, expiresAt \in 0..MaxTime :
          sessions' = createSession(sessions, u.id, nextToken, expiresAt)
    /\ nextToken' = nextToken + 1
    /\ out' = DbResult("createSession", nextToken, Null)
    /\ UNCHANGED <<users, now, dbConfigured, slot, call, lastUpsert,
                   consumed, signedOut, trialVars>>

\* getSessionByToken(sessionToken)
DbGetSessionByToken ==
    /\ Delivered
    /\ dbConfigured
    /\ \E t \in DbTokens :
          out' = DbResult("getSessionByToken", t, getSessionByToken(sessions, users, now, t))
    /\ UNCHANGED <<users, sessions, now, nextToken, dbConfigured, slot, call, lastUpsert,
                   consumed, signedOut, trialVars>>

\* deleteSession(sessionToken)
DbDeleteSession ==
    /\ Delivered
    /\ dbConfigured
    /\ \E t \in DbTokens :
          /\ sessions' = deleteSession(sessions, t)
          /\ out' = DbResult("deleteSession", t, Null)
    /\ UNCHANGED <<users, now, nextToken, dbConfigured, slot, call, lastUpsert,
                   consumed, signedOut, trialVars>>

\* cleanupExpiredSessions()
DbCleanupExpiredSessions ==
    /\ Delivered
    /\ dbConfigured
    /\ sessions' = cleanupExpiredSessions(sessions, now)
    /\ out' = DbResult("cleanupExpiredSessions", 0, Null)
    /\ UNCHANGED <<users, now, nextToken, dbConfigured, slot, call, lastUpsert,
                   consumed, signedOut, trialVars>>

\* GET status, run from its request to its response beside the calls above
StatusRun ==
    /\ Delivered
    /\ dbConfigured
    /\ \E q \in Requests(now), ok \in BOOLEAN :
          /\ Route(q) = "handleStatus"
          /\ LET res == [NoOut EXCEPT !.q = q,
                                      !.ops = {"handleStatus", "getAuthenticatedUser"}]
                 looked == [res EXCEPT !.ops = @ \cup {"getSessionByToken"}]
             IN out' = IF getSessionToken(q) = Null
                       THEN handleStatusAnswer(res, Null)
                       ELSE IF ok
                       THEN handleStatusAnswer(looked,
                                getAuthenticatedUser(
                                    getSessionByToken(sessions, users, now,
                                                      getSessionToken(q)[1])))
                       ELSE handleStatusCatch(
                                [looked EXCEPT !.faults = @ \cup {"getSessionByToken"}],
                                DbError)
    /\ UNCHANGED <<users, sessions, now, nextToken, dbConfigured, slot, call, lastUpsert,
                   consumed, signedOut, trialVars>>

NextDbSessions ==
    \/ StatusRun
    \/ DbCreateUser
    \/ DbCreateSession
    \/ DbGetSessionByToken
    \/ DbDeleteSession
    \/ DbCleanupExpiredSessions
    \/ Deliver
    \/ Tick

SpecDbSessions == Init /\ [][NextDbSessions]_vars

-----------------------------------------------------------------------------
(* db.ts called directly: incrementTrialUsage by concurrent clients.  A     *)
(* call is three steps: the call, its SELECT and its UPDATE.                *)

\* `|| 3`: max_trial_uses when the column holds nothing usable; the rows of
\* the model hold nothing else
DefaultMaxTrial == 3

\* Math.max(0, max - used)
Remaining(max, used) == IF max > used THEN max - used ELSE 0

\* { success: false, used: 0, remaining: 0, max: 3 }
IncrFailure(userId) ==
    [NoOut EXCEPT !.kind = "result", !.fn = "incrementTrialUsage", !.userId = userId,
                  !.success = FALSE, !.used = 0, !.remaining = 0, !.max = DefaultMaxTrial]

\* { success: true, used: newTrialUses, remaining, max }
IncrSuccess(userId, newTrialUses, max) ==
    [NoOut EXCEPT !.kind = "result", !.fn = "incrementTrialUsage", !.userId = userId,
                  !.success = TRUE, !.used = newTrialUses,
                  !.remaining = Remaining(max, newTrialUses), !.max = max]

\* incrementTrialUsage's UPDATE as one atomic increment in the store
incrementTrialUsageAtomic(uses, userId, newTrialUses) ==
    [uses EXCEPT ![userId] = @ + 1]

\* incrementTrialUsage's UPDATE: SET trial_uses = ${newTrialUses} WHERE id = ${userId}
incrementTrialUsage(uses, userId, newTrialUses) ==
    [uses EXCEPT ![userId] = newTrialUses]

\* the incrementTrialUsage calls for userId that are in flight
IncrInFlight(userId) == {c \in Clients : incr[c].pc # "idle" /\ incr[c].userId = userId}

\* incrementTrialUsage(userId) is called: neon(DATABASE_URL!) and the SELECT sent
IncrCall(c) ==
    /\ Delivered
    /\ incr[c].pc = "idle"
    /\ \E userId \in UserIds :
          /\ incrOk[userId] + Cardinality(IncrInFlight(userId)) < MaxIncrements
          /\ IF ~dbConfigured
             THEN /\ out' = IncrFailure(userId)
                  /\ UNCHANGED incr
             ELSE /\ out' = NoOut
                  /\ incr' = [incr EXCEPT ![c] = [IdleIncr EXCEPT !.pc = "select",
                                                                  !.userId = userId]]
    /\ UNCHANGED <<users, sessions, now, nextToken, dbConfigured, slot, call, lastUpsert,
                   consumed, signedOut, trialUses, incrOk>>

\* the SELECT of a call runs or throws; with a row, the UPDATE is sent
IncrSelected(c) ==
    /\ Delivered
    /\ incr[c].pc = "select"
    /\ \E ok \in BOOLEAN :
          IF ok /\ (\E u \in users : u.id = incr[c].userId)
          THEN /\ out' = NoOut
               /\ incr' = [incr EXCEPT ![c] =
                              [@ EXCEPT !.pc = "update",
                                        !.currentTrialUses = trialUses[incr[c].userId]]]
          ELSE /\ out' = IncrFailure(incr[c].userId)
               /\ incr' = [incr EXCEPT ![c] = IdleIncr]
    /\ UNCHANGED <<users, sessions, now, nextToken, dbConfigured, slot, call, lastUpsert,
                   consumed, signedOut, trialUses, incrOk>>

\* the UPDATE of a call runs or throws; the call returns
IncrUpdated(c) ==
    /\ Delivered
    /\ incr[c].pc = "update"
    /\ \E ok \in BOOLEAN :
          LET userId == incr[c].userId
              newTrialUses == incr[c].currentTrialUses + 1
          IN IF ok
             THEN /\ trialUses' = incrementTrialUsage(trialUses, userId, newTrialUses)
                  /\ incrOk' = [incrOk EXCEPT ![userId] = @ + 1]
                  /\ out' = IncrSuccess(userId, newTrialUses, DefaultMaxTrial)
             ELSE /\ UNCHANGED <<trialUses, incrOk>>
                  /\ out' = IncrFailure(userId)
    /\ incr' = [incr EXCEPT ![c] = IdleIncr]
    /\ UNCHANGED <<users, sessions, now, nextToken, dbConfigured, slot, call, lastUpsert,
                   consumed, signedOut>>

NextTrial ==
    \/ DbCreateUser
    \/ \E c \in Clients : IncrCall(c)
    \/ \E c \in Clients : IncrSelected(c)
    \/ \E c \in Clients : IncrUpdated(c)
    \/ Deliver

SpecTrial == Init /\ [][NextTrial]_vars

-----------------------------------------------------------------------------
(* One browser after another: sign-ins and callbacks, each run from its     *)
(* request to its response with no other invocation in between.             *)

\* the steps of a callback that can fail: its awaits and setSessionCookie
CallbackSteps == {"getGoogleUserInfo", "createUser", "createSession", "setSessionCookie"}

\* GET callback with a code, run to its response; failing is the step that
\* throws, "" when none does
CallbackRun ==
    /\ Delivered
    /\ Quiescent
    /\ nextToken <= MaxCallbacks
    /\ \E q \in Requests(now), googleUser \in Identities,
          failing \in CallbackSteps \cup {""} :
          /\ Route(q) = "handleCallback"
          /\ handleCallbackEntry(q) = "exchange"
          /\ LET res == [NoOut EXCEPT !.q = q,
                                      !.ops = {"handleCallback", "getGoogleUserInfo"}]
                 next == handleCallbackExchanged(failing # "getGoogleUserInfo", googleUser)
                 started == [res EXCEPT !.identity = googleUser,
                                        !.ops = @ \cup {"createUserSession", "createUser"}]
                 us == createUser(users, googleUser.id, googleUser.name, googleUser.email)
                 stored == [started EXCEPT !.ops = @ \cup {"createSession"}]
             IN IF next = "throw"
                THEN /\ out' = handleCallbackCatch(
                                   [res EXCEPT !.faults = @ \cup {"getGoogleUserInfo"}],
                                   ExchangeError)
                     /\ UNCHANGED <<users, sessions, nextToken, consumed>>
                ELSE IF next = "no_email"
                THEN /\ out' = Redirect([res EXCEPT !.identity = googleUser],
                                        <<"/?error=", "no_email">>)
                     /\ UNCHANGED <<users, sessions, nextToken, consumed>>
                ELSE IF ensureDatabaseThrows(dbConfigured) \/ failing = "createUser"
                THEN /\ out' = handleCallbackCatch(
                                   [started EXCEPT !.faults = @ \cup {"createUser"}],
                                   IF ensureDatabaseThrows(dbConfigured)
                                   THEN ConfigError ELSE DbError)
                     /\ UNCHANGED <<users, sessions, nextToken, consumed>>
                ELSE IF failing = "createSession"
                THEN /\ users' = us
                     /\ out' = handleCallbackCatch(
                                   [stored EXCEPT !.faults = @ \cup {"createSession"}],
                                   DbError)
                     /\ UNCHANGED <<sessions, nextToken, consumed>>
                ELSE /\ users' = us
                     /\ sessions' = createSession(sessions, createUserRow(us, googleUser.id).id,
                                                   nextToken, now + SessionTTL)
                     /\ nextToken' = nextToken + 1
                     /\ out' = handleCallbackFinish(stored, nextToken, now,
                                                    failing = "setSessionCookie")
                     /\ consumed' = IF failing # "setSessionCookie"
                                       /\ verifyStateToken(q.state, now) # Null
                                    THEN consumed \cup {q.state[1]}
                                    ELSE consumed
    /\ UNCHANGED <<now, dbConfigured, slot, call, lastUpsert, signedOut, trialVars>>

NextStateTokens ==
    \/ SignIn
    \/ CallbackRefused
    \/ CallbackRun
    \/ Deliver
    \/ Tick

SpecStateTokens == Init /\ [][NextStateTokens]_vars

-----------------------------------------------------------------------------
(* Properties *)

\* out is what the handler made of a request: a response, or a rejection
Handled(o) == o.fn = "" /\ o.kind \in {"response", "escaped"}

\* C10: a non-OPTIONS request whose action value is none of signin, signout,
\* status, callback is answered 400; no handler runs for it (nothing is
\* invoked, no invocation of it is ever in flight), its response carries no
\* cookie, and the step that answers it leaves users and sessions as they were.
C10_UnknownActionState ==
    /\ \A r \in Slots : slot[r].pc # "idle" => slot[r].q.action # "bogus"
    /\ (Handled(out) /\ out.q.method # "OPTIONS" /\ out.q.action = "bogus")
         => /\ out.kind = "response"
            /\ out.status = 400
            /\ out.ops = {}
            /\ out.cookie = "none"

C10_UnknownAction400 ==
    /\ []C10_UnknownActionState
    /\ [][(Handled(out') /\ out'.q.action = "bogus")
             => UNCHANGED <<users, sessions>>]_vars

\* a state C10 is about: an unknown action answered
C10_Witness ==
    /\ Handled(out)
    /\ out.q.method = "POST"
    /\ out.q.action = "bogus"
    /\ out.status = 400
    /\ users # {}

\* out answers a GET callback
CallbackHandled(o) == Handled(o) /\ o.q.method = "GET" /\ o.q.action = "callback"

\* a step of the callback failed: the provider reported an error, the code
\* is missing, a collaborator threw, or the identity has no email
CallbackStepFailed(o) ==
    \/ o.q.error # <<>>
    \/ o.q.code = ""
    \/ o.faults # {}
    \/ (o.identity # NoIdentity /\ o.identity.email = "")

\* C1: every GET callback ends in a 302: to /?error=<reason> when a step
\* failed, to the redirect target otherwise; never a 500, never no response.
C1_CallbackAlwaysRedirects ==
    CallbackHandled(out) =>
        /\ out.kind = "response"
        /\ out.status = 302
        /\ IF CallbackStepFailed(out)
           THEN Len(out.location) >= 2 /\ out.location[1] = "/?error="
           ELSE out.location \in {<<p>> : p \in Paths \cup {"/", "/upload"}}

\* a state C1 is about: the callback failed late, setting the cookie
C1_Witness ==
    /\ CallbackHandled(out)
    /\ out.faults = {"setSessionCookie"}
    /\ out.status = 302

\* what encodeURIComponent makes of the provider errors of the model
C2_EncodedError(e) ==
    IF e = <<"a", "&", "b">> THEN <<"a", "%", "2", "6", "b">> ELSE e

\* C2: a callback carrying a provider error never invokes the code exchange
\* (no invocation of it is ever in flight), creates no user, session or
\* cookie, and answers 302 to /?error=<encoded error>, with or without a code.
C2_ProviderErrorState ==
    /\ \A r \in Slots : slot[r].pc # "idle" => slot[r].q.error = <<>>
    /\ (CallbackHandled(out) /\ out.q.error # <<>>)
         => /\ out.kind = "response"
            /\ out.status = 302
            /\ out.location = <<"/?error=">> \o C2_EncodedError(out.q.error)
            /\ out.ops \cap {"getGoogleUserInfo", "createUserSession", "createUser",
                              "createSession", "setSessionCookie"} = {}
            /\ out.cookie = "none"

C2_ProviderErrorNeverExchanges ==
    /\ []C2_ProviderErrorState
    /\ [][(CallbackHandled(out') /\ out'.q.error # <<>>)
             => UNCHANGED <<users, sessions>>]_vars

\* a state C2 is about: a provider error beside a code, its "&" encoded
C2_Witness ==
    /\ CallbackHandled(out)
    /\ out.q.error = <<"a", "&", "b">>
    /\ out.q.code # ""
    /\ out.status = 302

\* out answers a callback whose code exchange gave an identity without email
NoEmailHandled(o) ==
    CallbackHandled(o) /\ o.identity # NoIdentity /\ o.identity.email = ""

\* C3: a callback whose code exchange succeeds with an empty email answers
\* 302 to /?error=no_email; it never starts createUserSession, sets no
\* cookie, and the step that answers it leaves users and sessions as they were.
C3_NoEmailState ==
    /\ \A r \in Slots :
          "createUserSession" \in slot[r].ops => slot[r].identity.email # ""
    /\ NoEmailHandled(out)
         => /\ out.kind = "response"
            /\ out.status = 302
            /\ out.location = <<"/?error=", "no_email">>
            /\ out.ops \cap {"createUserSession", "createUser", "createSession",
                              "setSessionCookie"} = {}
            /\ out.cookie = "none"

C3_NoEmailCreatesNothing ==
    /\ []C3_NoEmailState
    /\ [][NoEmailHandled(out') => UNCHANGED <<users, sessions>>]_vars

\* a state C3 is about: no email, answered while a user and a session exist
C3_Witness ==
    /\ NoEmailHandled(out)
    /\ out.status = 302
    /\ users # {}
    /\ sessions # {}

\* out answers a GET request with action=status
StatusHandled(o) == Handled(o) /\ o.q.method = "GET" /\ o.q.action = "status"

\* the session rows, joined with their users, that are valid for token t now
ValidSessions(t) ==
    {p \in sessions \X users :
        p[1].session_token = t /\ p[1].user_id = p[2].id /\ now < p[1].expires_at}

\* C4: every GET status request is answered 200; without a cookie the body
\* says isAuthenticated:false, user:null; with a cookie of a valid session
\* (and the lookup not failing) it says isAuthenticated:true with the owning
\* user's uuid, username and email; when the lookup fails it says
\* isAuthenticated:false with an error hint.  (The status step leaves the
\* tables as they are, so the state holds the tables the lookup read.)
C4_StatusAlways200 ==
    StatusHandled(out) =>
        /\ out.kind = "response"
        /\ out.status = 200
        /\ out.body = "status"
        /\ out.q.cookie = Null => (~out.isAuthenticated /\ out.user = Null)
        /\ (out.q.cookie # Null /\ dbConfigured /\ out.faults = {})
             => \A p \in ValidSessions(out.q.cookie[1]) :
                    /\ out.isAuthenticated
                    /\ out.user = Some([uuid |-> p[2].uuid, username |-> p[2].name,
                                         email |-> p[2].email])
        /\ out.faults # {}
             => (~out.isAuthenticated /\ out.user = Null /\ out.error # <<>>)

\* a state C4 is about: a valid session's owner reported, another user existing
C4_Witness ==
    /\ StatusHandled(out)
    /\ out.isAuthenticated
    /\ Cardinality(users) = 2

\* out answers a POST signout
SignOutHandled(o) == Handled(o) /\ o.q.method = "POST" /\ o.q.action = "signout"

C6_SignOutClearsCookie ==
    (SignOutHandled(out) /\ out.kind = "response") => out.cookie = "cleared"

\* a state C6 is about: no cookie came, the first clear-cookie step threw,
\* and the response of the catch block still clears the cookie
C6_Witness ==
    /\ SignOutHandled(out)
    /\ out.kind = "response"
    /\ out.q.cookie = Null
    /\ out.faults = {"clearSessionCookie"}
    /\ out.cookie = "cleared"

\* C9: every request ends in a response: nothing escapes the handler, also
\* when a step of an action's own error path fails.
C9_NothingEscapes == Handled(out) => out.kind = "response"

\* the session row with token t joined with its user, as getSessionByToken
\* selects it
JoinedRow(p) ==
    [user_id |-> p[1].user_id, session_token |-> p[1].session_token,
     expires_at |-> p[1].expires_at, uuid |-> p[2].uuid, username |-> p[2].name,
     email |-> p[2].email]

\* C7: getSessionByToken(token) returns the session joined with its user
\* exactly while now < expiresAt, and null at or after expiresAt: the same
\* null it returns for a token never created or deleted.  (The lookup leaves
\* the tables as they are, so the state holds the tables it read.)
C7_SessionValidUntilExpiry ==
    (out.kind = "result" /\ out.fn = "getSessionByToken") =>
        /\ \A p \in sessions \X users :
              (p[1].session_token = out.token /\ p[1].user_id = p[2].id)
                  => out.found = IF now < p[1].expires_at THEN Some(JoinedRow(p))
                                 ELSE Null
        /\ (\A x \in sessions : x.session_token # out.token) => out.found = Null

\* a state C7 is about: a session looked up at the very time it expires
C7_Witness ==
    /\ out.kind = "result"
    /\ out.fn = "getSessionByToken"
    /\ out.found = Null
    /\ \E x \in sessions : x.session_token = out.token /\ x.expires_at = now
    /\ now > 0

\* C8: the users table holds at most one row per uuid, and the row of a uuid
\* carries the name and email of the last createUser call whose statement
\* ran for that uuid; a uuid no createUser ran for has no row.
C8_UpsertOneRowLatest ==
    \A g \in GoogleIds :
        /\ Cardinality({u \in users : u.uuid = g}) <= 1
        /\ lastUpsert[g] = Null => ~(\E u \in users : u.uuid = g)
        /\ lastUpsert[g] # Null =>
              \E u \in users :
                  /\ u.uuid = g
                  /\ u.name = lastUpsert[g][1].name
                  /\ u.email = IF lastUpsert[g][1].email = "" THEN SqlNull
                                ELSE lastUpsert[g][1].email

\* a state C8 is about: two calls for one uuid were in flight together, and
\* the second statement to run has just updated the row the first inserted
C8_Witness ==
    /\ out.fn = "createUser"
    /\ \E g \in GoogleIds :
          /\ lastUpsert[g] # Null
          /\ lastUpsert[g][1].again
          /\ lastUpsert[g][1].name = "n2"
          /\ Cardinality({u \in users : u.uuid = g}) = 1
    /\ \E c \in Clients : call[c].pc = "createUser"

\* the one method the handler allows for an action
C11_Allowed(action) == IF action = "signout" THEN "POST" ELSE "GET"

\* q names one of the four actions and uses a method, not OPTIONS, other than
\* the one allowed for it
C11_WrongMethod(q) ==
    /\ q.action \in {"signin", "signout", "status", "callback"}
    /\ q.method \notin {"OPTIONS", C11_Allowed(q.action)}

\* C11: a request for one of the four actions with a wrong method (not
\* OPTIONS) is answered 405 before the action's handler runs: nothing is
\* invoked, no invocation of it is ever in flight, its response carries no
\* cookie, and the step that answers it leaves users and sessions as they were.
C11_WrongMethodState ==
    /\ \A r \in Slots : slot[r].pc # "idle" => ~C11_WrongMethod(slot[r].q)
    /\ (Handled(out) /\ C11_WrongMethod(out.q))
         => /\ out.kind = "response"
            /\ out.status = 405
            /\ out.ops = {}
            /\ out.cookie = "none"

C11_WrongMethod405 ==
    /\ []C11_WrongMethodState
    /\ [][(Handled(out') /\ C11_WrongMethod(out'.q))
             => UNCHANGED <<users, sessions>>]_vars

\* a state C11 is about: a GET signout carrying the cookie of a live session
\* is answered 405, the session row still there
C11_Witness ==
    /\ Handled(out)
    /\ out.q.method = "GET"
    /\ out.q.action = "signout"
    /\ out.status = 405
    /\ out.q.cookie # Null
    /\ \E x \in sessions : x.session_token = out.q.cookie[1] /\ now < x.expires_at

\* the state token a GET signin asking for next is answered with at time t0
C12_Issued(next, t0) ==
    handleSignIn([NoOut EXCEPT !.q = [BaseRequest EXCEPT !.action = "signin",
                                                          !.next = next]],
                 t0, FALSE).issued

\* out answers a callback none of whose steps failed
CallbackSucceeded(o) == CallbackHandled(o) /\ ~CallbackStepFailed(o)

\* C12: a successful callback redirects to the path its state token carries:
\* carrying the token a sign-in with next=p issued (and still fresh), to p;
\* carrying the token of a sign-in without next, to /; with no state, or a
\* state that fails verification (bad signature, or stale), to /upload.
C12_RedirectFollowsState ==
    CallbackSucceeded(out) =>
        /\ out.kind = "response"
        /\ out.status = 302
        /\ out.cookie = "set"
        /\ \A next \in Paths \cup {""}, t0 \in 0..now :
              (out.q.state = C12_Issued(next, t0) /\ now <= t0 + StateTTL)
                  => out.location = <<IF next = "" THEN "/" ELSE next>>
        /\ out.q.state = Null => out.location = <<"/upload">>
        /\ (out.q.state # Null /\ out.q.state[1].sig # "ok")
              => out.location = <<"/upload">>
        /\ (out.q.state # Null /\ now > out.q.state[1].iat + StateTTL)
              => out.location = <<"/upload">>

\* a state C12 is about: a callback, later than the sign-in with next=/p
\* whose token it carries, redirects to /p
C12_Witness ==
    /\ CallbackSucceeded(out)
    /\ now = 1
    /\ out.q.state = C12_Issued("/p", 0)
    /\ out.location = <<"/p">>

\* C13: a state token is consumed once: a successful callback carrying a state
\* token that an earlier callback has used to choose its redirect target is
\* not redirected to the path the token carries.
C13_StateTokenConsumedOnce ==
    [][(/\ CallbackSucceeded(out')
        /\ out'.q.state # Null
        /\ out'.q.state[1] \in consumed)
           => out'.location # <<out'.q.state[1].redirectTo>>]_vars

\* C14: while DATABASE_URL is not set, every GET status request is answered
\* 200 with isAuthenticated:false and user:null, whatever cookie it carries,
\* and no session lookup is made: none is invoked, and no status invocation
\* ever waits for one.
C14_UnconfiguredStatus ==
    ~dbConfigured =>
        /\ \A r \in Slots : slot[r].pc # "status_lookup"
        /\ StatusHandled(out)
             => /\ out.kind = "response"
                /\ out.status = 200
                /\ ~out.isAuthenticated
                /\ out.user = Null
                /\ out.ops \cap {"getAuthenticatedUser", "getSessionByToken"} = {}
                /\ out.faults = {}

\* a state C14 is about: a status request carrying a cookie, answered while
\* DATABASE_URL is not set
C14_Witness ==
    /\ ~dbConfigured
    /\ StatusHandled(out)
    /\ out.q.cookie # Null
    /\ out.status = 200
    /\ ~out.isAuthenticated

\* out is the result of a call of the db.ts function fn
DbReturned(o, fn) == o.kind = "result" /\ o.fn = fn

\* C15: deleteSession(token) succeeds whether or not a row has the token;
\* it removes the rows with that token and no other row; afterwards
\* getSessionByToken(token) is null and a second deleteSession(token) changes
\* nothing; every other token is looked up as before, the other sessions of
\* the same user included.
C15_DeleteSessionOnlyThatToken ==
    /\ [](out.fn = "deleteSession" => out.kind = "result")
    /\ [][DbReturned(out', "deleteSession") =>
             /\ sessions' = {x \in sessions : x.session_token # out'.token}
             /\ getSessionByToken(sessions', users', now', out'.token) = Null
             /\ deleteSession(sessions', out'.token) = sessions'
             /\ \A t \in DbTokens \ {out'.token} :
                    getSessionByToken(sessions', users', now', t)
                        = getSessionByToken(sessions, users, now, t)]_vars

\* a state C15 is about: the one user had two sessions; one was deleted, and
\* deleting it again left the other one valid
C15_Witness ==
    /\ DbReturned(out, "deleteSession")
    /\ Cardinality(users) = 1
    /\ nextToken = 3
    /\ \A x \in sessions : x.session_token # out.token
    /\ \E x \in sessions :
          getSessionByToken(sessions, users, now, x.session_token) # Null

\* C16: a status request racing a sign-out of the same session is answered
\* 200 with the session's user or with isAuthenticated:false and user:null,
\* whatever the interleaving; and once a sign-out carrying token t has been
\* answered 200, every status response for a cookie t says
\* isAuthenticated:false (a token no session ever had never authenticates).
C16_SignOutStatusRace ==
    StatusHandled(out) =>
        /\ out.kind = "response"
        /\ out.status = 200
        /\ out.isAuthenticated =>
              /\ out.q.cookie # Null
              /\ \E p \in ValidSessions(out.q.cookie[1]) :
                    out.user = Some([uuid |-> p[2].uuid, username |-> p[2].name,
                                     email |-> p[2].email])
        /\ ~out.isAuthenticated => out.user = Null
        /\ (out.q.cookie # Null /\ out.q.cookie[1] \in signedOut \cup {NoSessionToken})
              => ~out.isAuthenticated

\* a state C16 is about: the session's sign-out was answered 200, and a status
\* request carrying its token, at a time the session would still be valid,
\* is told isAuthenticated:false
C16_Witness ==
    /\ StatusHandled(out)
    /\ out.q.cookie = Some(1)
    /\ 1 \in signedOut
    /\ now = 0
    /\ out.faults = {}
    /\ ~out.isAuthenticated

\* C17: incrementTrialUsage reads, then writes what it read plus one: a call
\* that reports success leaves trial_uses at the value it read plus one,
\* whatever was written since it read, and reports that value as used; so
\* the stored counter never exceeds, and can fall below, the number of calls
\* that reported success.
C17_ReadThenWrite ==
    /\ [](\A u \in UserIds : trialUses[u] <= incrOk[u])
    /\ [][\A c \in Clients :
             (incr[c].pc = "update" /\ incr'[c].pc = "idle" /\ out'.success)
                 => /\ trialUses'[incr[c].userId] = incr[c].currentTrialUses + 1
                    /\ out'.used = incr[c].currentTrialUses + 1
                    /\ incrOk'[incr[c].userId] = incrOk[incr[c].userId] + 1]_vars

\* a state C17 is about: two calls for one user have both reported success,
\* the second one just now with used = 1, and trial_uses is 1
C17_Witness ==
    /\ DbReturned(out, "incrementTrialUsage")
    /\ out.success
    /\ out.used = 1
    /\ incrOk[out.userId] = 2
    /\ trialUses[out.userId] = 1

\* C18: a session row leaves the table only in a deleteSession or a
\* cleanupExpiredSessions call: a getSessionByToken (of an expired token
\* too), a status request, a createSession and a createUser leave every row
\* in place, and none of them invokes cleanupExpiredSessions.
C18_OnlyDeleteAndCleanupRemove ==
    /\ []("cleanupExpiredSessions" \notin out.ops)
    /\ [][(\E x \in sessions : x \notin sessions')
             => (DbReturned(out', "deleteSession")
                 \/ DbReturned(out', "cleanupExpiredSessions"))]_vars

\* a state C18 is about: getSessionByToken has refused an expired session,
\* and its row is still in the table
C18_Witness ==
    /\ DbReturned(out, "getSessionByToken")
    /\ out.found = Null
    /\ \E x \in sessions : x.session_token = out.token /\ x.expires_at < now

\* C19: cleanupExpiredSessions deletes exactly the rows getSessionByToken
\* refuses for expiry (now >= expires_at), so that after a cleanup every
\* remaining session whose user exists is returned by getSessionByToken.
C19_CleanupAgreesWithLookup ==
    /\ [](DbReturned(out, "cleanupExpiredSessions") =>
             \A x \in sessions :
                 (\E u \in users : u.id = x.user_id)
                     => getSessionByToken(sessions, users, now, x.session_token) # Null)
    /\ [][DbReturned(out', "cleanupExpiredSessions")
             => sessions' = {x \in sessions : ~(now >= x.expires_at)}]_vars

\* C20: a callback answered with a redirect to the error page has created no
\* session row and set no session cookie.
C20_ErrorRedirectCreatesNoSession ==
    [][(/\ CallbackHandled(out')
        /\ out'.kind = "response"
        /\ Len(out'.location) >= 1
        /\ out'.location[1] = "/?error=")
           => (sessions' = sessions /\ out'.cookie = "none")]_vars

\* out answers a request, not OPTIONS, whose action is missing or empty
C21_NoActionHandled(o) == Handled(o) /\ o.q.action = "" /\ o.q.method # "OPTIONS"

\* C21: a request, not OPTIONS, with a missing or empty action is handled as
\* action=status: with GET the status handler runs and answers 200 with the
\* status body (isAuthenticated:true and the owning user exactly for the
\* cookie of a valid session whose lookup did not fail), with any other
\* method the answer is 405 and no handler runs; it is never 400, and the
\* only await such a request ever waits at is the status lookup.
C21_NoActionIsStatus ==
    /\ \A r \in Slots :
          (slot[r].pc # "idle" /\ slot[r].q.action = "")
              => (slot[r].pc = "status_lookup" /\ slot[r].q.method = "GET")
    /\ C21_NoActionHandled(out) =>
          /\ out.kind = "response"
          /\ out.status # 400
          /\ IF out.q.method = "GET"
             THEN /\ out.status = 200
                  /\ out.body = "status"
                  /\ "handleStatus" \in out.ops
                  /\ out.q.cookie = Null => (~out.isAuthenticated /\ out.user = Null)
                  /\ (out.q.cookie # Null /\ dbConfigured /\ out.faults = {})
                       => \A p \in ValidSessions(out.q.cookie[1]) :
                              /\ out.isAuthenticated
                              /\ out.user = Some([uuid |-> p[2].uuid,
                                                   username |-> p[2].name,
                                                   email |-> p[2].email])
                  /\ out.isAuthenticated
                       => (out.q.cookie # Null
                           /\ ValidSessions(out.q.cookie[1]) # {}
                           /\ out.faults = {})
             ELSE /\ out.status = 405
                  /\ out.ops = {}
                  /\ out.cookie = "none"

\* a state C21 is about: a GET without action, carrying the cookie of a
\* valid session, is told isAuthenticated:true
C21_Witness ==
    /\ C21_NoActionHandled(out)
    /\ out.q.method = "GET"
    /\ out.status = 200
    /\ out.isAuthenticated

=============================================================================
